---- MODULE Spec2Model ----
(***************************************************************************)
(* A model of the MyST reader plugin for Pelican                           *)
(* (pelican/plugins/myst_reader/myst_reader.py).                           *)
(*                                                                         *)
(* Python strings are sequences of one-character strings, so that          *)
(* splitlines, rstrip, strip, replace, split and lower are computed the    *)
(* way the interpreter computes them.  Error messages, dictionary keys of  *)
(* the settings and exception kinds are opaque TLA+ strings: the code only *)
(* compares them or passes them on.                                        *)
(***************************************************************************)
EXTENDS Integers, Sequences, FiniteSets, TLC

VARIABLES
    call,               \* the helper under call and its arguments
    ret,                \* what the call returned or raised
    settings,           \* self.settings of the reader instance
    enable_extensions,  \* MySTReader.parser_config.enable_extensions (class level)
    pc,                 \* position of the reader in read/_create_html
    fs,                 \* the file system: directory -> names of its files
    source_path,        \* the document being read
    file_content,       \* the text of the document, as pelican_open gave it
    content,            \* local `content` of _create_html
    myst_calls,         \* the texts handed to main.to_html for this document
    output,             \* local `output` of _create_html
    toc,                \* local `toc` of _create_html
    myst_metadata,      \* local `myst_metadata` of _create_html
    metadata,           \* local `metadata` of _create_html
    result,             \* what read returned or raised
    docs_read           \* number of read calls made so far

helper_vars == <<call, ret>>
reader_vars == <<settings, enable_extensions, pc, fs, source_path,
                 file_content, content, myst_calls, output, toc,
                 myst_metadata, metadata, result, docs_read>>
vars == <<call, ret, settings, enable_extensions, pc, fs, source_path,
          file_content, content, myst_calls, output, toc, myst_metadata,
          metadata, result, docs_read>>

(***************************************************************************)
(* Bounds of the model.                                                    *)
(***************************************************************************)
MaxChunks == 5
MaxInChunks == 3
MaxOutChunks == 2
MaxLinkChunks == 3
MaxItems == 2
MaxValueChunks == 3
MaxWords == 400
MaxSpeed == 200
MaxDocs == 2
MaxBibNames == 3
MaxNodes == 3

(***************************************************************************)
(* Python values and outcomes.                                             *)
(***************************************************************************)
Returned(v) == [kind |-> "return", value |-> v]
Raised(k, m) == [kind |-> k, msg |-> m]
NoOutcome == [kind |-> "none"]

PyNone == [t |-> "NoneType"]
PyStr(s) == [t |-> "str", s |-> s]
PyInt(n) == [t |-> "int", n |-> n]

\* Python truth value of a str or an int
Truthy(x) ==
    CASE x.t = "str" -> x.s # <<>>
      [] x.t = "int" -> x.n # 0
      [] OTHER -> FALSE

(***************************************************************************)
(* str methods.                                                            *)
(***************************************************************************)
Whitespace == {" ", "\t", "\n", "\r", "\f"}
LineBreaks == {"\n", "\r", "\f"}

RECURSIVE Concat(_)
Concat(ss) == IF ss = <<>> THEN <<>> ELSE Head(ss) \o Concat(Tail(ss))

\* str.rstrip()
RECURSIVE rstrip(_)
rstrip(s) ==
    IF s # <<>> /\ s[Len(s)] \in Whitespace
    THEN rstrip(SubSeq(s, 1, Len(s) - 1))
    ELSE s

\* str.splitlines(): "\r\n" is one line break; a final line break opens no
\* further line
RECURSIVE splitlines_from(_, _, _, _)
splitlines_from(s, i, cur, acc) ==
    IF i > Len(s)
    THEN IF cur = <<>> THEN acc ELSE Append(acc, cur)
    ELSE IF s[i] \in LineBreaks
         THEN LET skip == IF s[i] = "\r" /\ i < Len(s) /\ s[i + 1] = "\n"
                          THEN 2 ELSE 1
              IN splitlines_from(s, i + skip, <<>>, Append(acc, cur))
         ELSE splitlines_from(s, i + 1, Append(cur, s[i]), acc)

splitlines(s) == splitlines_from(s, 1, <<>>, <<>>)

(***************************************************************************)
(* MySTReader._check_yaml_metadata_block                                   *)
(***************************************************************************)
MsgEmpty == "Could not find metadata. File is empty."
MsgNoHeader == "Could not find metadata header '---'."
MsgNoEnd == "Could not find end of metadata block."

Dashes == <<"-", "-", "-">>
Dots == <<".", ".", ".">>

\* the loop over enumerate(content_lines[1:]): the 0-based position of the
\* first closing line, or the initial "" when the loop never breaks
RECURSIVE find_yaml_block_end(_, _)
find_yaml_block_end(rest, line_num) ==
    IF rest = <<>> THEN PyStr(<<>>)
    ELSE IF rstrip(Head(rest)) \in {Dashes, Dots}
         THEN PyInt(line_num)
         ELSE find_yaml_block_end(Tail(rest), line_num + 1)

_check_yaml_metadata_block(text) ==
    IF text = <<>> THEN Raised("Exception", MsgEmpty)
    ELSE LET content_lines == splitlines(text) IN
         IF rstrip(content_lines[1]) \notin {Dashes}
         THEN Raised("Exception", MsgNoHeader)
         ELSE LET yaml_block_end == find_yaml_block_end(Tail(content_lines), 0) IN
              IF ~Truthy(yaml_block_end)
              THEN Raised("Exception", MsgNoEnd)
              ELSE Returned(PyNone)

(***************************************************************************)
(* Document texts: every concatenation of at most n chunks.                *)
(***************************************************************************)
TextChunks == {Dashes, Dots, <<"-">>, <<" ">>, <<"\n">>, <<"a">>}

RECURSIVE ChunkSeqs(_, _)
ChunkSeqs(chunks, n) ==
    IF n = 0 THEN {<<>>}
    ELSE LET shorter == ChunkSeqs(chunks, n - 1)
         IN shorter \cup {Append(cs, c) : cs \in shorter, c \in chunks}

Texts(n) == {Concat(cs) : cs \in ChunkSeqs(TextChunks, n)}

(***************************************************************************)
(* More str methods, used by the format validators.                        *)
(***************************************************************************)
\* str.replace(old, new) for one-character old and new
replace_char(s, old, new) ==
    [i \in 1..Len(s) |-> IF s[i] = old THEN new ELSE s[i]]

\* str.split(sep) for a one-character sep: the pieces between separators
RECURSIVE split_from(_, _, _, _, _)
split_from(s, sep, i, cur, acc) ==
    IF i > Len(s) THEN Append(acc, cur)
    ELSE IF s[i] = sep
         THEN split_from(s, sep, i + 1, <<>>, Append(acc, cur))
         ELSE split_from(s, sep, i + 1, Append(cur, s[i]), acc)

split(s, sep) == split_from(s, sep, 1, <<>>, <<>>)

\* dict.get(key, default)
Get(d, key, default) == IF key \in DOMAIN d THEN d[key] ELSE default

(***************************************************************************)
(* MySTReader._check_input_format                                          *)
(***************************************************************************)
VALID_INPUT_FORMATS ==
    { <<"c", "o", "m", "m", "o", "n", "m", "a", "r", "k">>,
      <<"c", "o", "m", "m", "o", "n", "m", "a", "r", "k", "_", "x">>,
      <<"g", "f", "m">>,
      <<"m", "a", "r", "k", "d", "o", "w", "n">>,
      <<"m", "a", "r", "k", "d", "o", "w", "n", "_", "m", "m", "d">>,
      <<"m", "a", "r", "k", "d", "o", "w", "n", "_", "p", "h", "p", "e", "x", "t", "r", "a">>,
      <<"m", "a", "r", "k", "d", "o", "w", "n", "_", "s", "t", "r", "i", "c", "t">> }

MsgNoInput == "No input format specified."
MsgBothInput == "Specifying both from and reader is not supported. Please specify just one."
MsgNotMarkdown == "Input type has to be a Markdown variant."

\* a variant that forgets the replace of "+": only "-" ends the base token
reader_prefix_of_dash_only(reader) == split(reader, "-")[1]

\* reader.replace("+", "-").split("-")[0]
reader_prefix_of(reader) == split(replace_char(reader, "+", "-"), "-")[1]

_check_input_format(defaults) ==
    LET reader_input == Get(defaults, "reader", <<>>)
        from_input == Get(defaults, "from", <<>>)
    IN IF reader_input = <<>> /\ from_input = <<>>
       THEN Raised("ValueError", MsgNoInput)
       ELSE IF reader_input # <<>> /\ from_input # <<>>
       THEN Raised("ValueError", MsgBothInput)
       ELSE LET reader == IF reader_input # <<>> THEN reader_input ELSE from_input IN
            IF reader_prefix_of(reader) \notin VALID_INPUT_FORMATS
            THEN Raised("ValueError", MsgNotMarkdown)
            ELSE Returned(reader)

(***************************************************************************)
(* MySTReader._check_output_format                                         *)
(***************************************************************************)
HtmlT == <<"h", "t", "m", "l">>
Html5T == <<"h", "t", "m", "l", "5">>
VALID_OUTPUT_FORMATS == {HtmlT, Html5T}

MsgBothOutput == "Specifying both to and writer is not supported. Please specify just one."
MsgOutput == "Output format type must be either html or html5."

\* a variant that tests the tokens before it tests for both keys
_check_output_format_tokens_first(defaults) ==
    LET writer_output == Get(defaults, "writer", <<>>)
        to_output == Get(defaults, "to", <<>>)
    IN IF writer_output \notin VALID_OUTPUT_FORMATS
          /\ to_output \notin VALID_OUTPUT_FORMATS
       THEN Raised("ValueError", MsgOutput)
       ELSE IF writer_output # <<>> /\ to_output # <<>>
       THEN Raised("ValueError", MsgBothOutput)
       ELSE Returned(PyNone)

_check_output_format(defaults) ==
    LET writer_output == Get(defaults, "writer", <<>>)
        to_output == Get(defaults, "to", <<>>)
    IN IF writer_output # <<>> /\ to_output # <<>>
       THEN Raised("ValueError", MsgBothOutput)
       ELSE IF writer_output \notin VALID_OUTPUT_FORMATS
               /\ to_output \notin VALID_OUTPUT_FORMATS
       THEN Raised("ValueError", MsgOutput)
       ELSE Returned(PyNone)

(***************************************************************************)
(* Settings records of a defaults file: each key absent or holding a       *)
(* string.                                                                 *)
(***************************************************************************)
InputChunks ==
    { <<"c", "o", "m", "m", "o", "n", "m", "a", "r", "k">>, <<"_", "x">>,
      <<"g", "f", "m">>, <<"m", "a", "r", "k", "d", "o", "w", "n">>, <<"_", "m", "m", "d">>,
      <<"_", "p", "h", "p", "e", "x", "t", "r", "a">>,
      <<"_", "s", "t", "r", "i", "c", "t">>, <<"r", "s", "t">>,
      <<"+">>, <<"-">> }

InputFormats(n) == {Concat(cs) : cs \in ChunkSeqs(InputChunks, n)}
FewInputFormats == {<<>>, <<"g", "f", "m">>, <<"r", "s", "t">>}

OutputChunks == {<<"h", "t", "m", "l">>, <<"5">>, <<"p", "d", "f">>, <<"-">>}
OutputFormats(n) == {Concat(cs) : cs \in ChunkSeqs(OutputChunks, n)}

\* the records over two keys whose values, where present, come from A and B
Records(k1, A, k2, B) ==
    {[k \in {k1, k2} |-> IF k = k1 THEN a ELSE b] : a \in A, b \in B}
    \cup {[k \in {k1} |-> a] : a \in A}
    \cup {[k \in {k2} |-> b] : b \in B}
    \cup {<<>>}

InputDefaults(n) ==
    Records("reader", InputFormats(n), "from", FewInputFormats)
    \cup Records("reader", FewInputFormats, "from", InputFormats(n))

OutputDefaults(n) == Records("writer", OutputFormats(n), "to", OutputFormats(n))

(***************************************************************************)
(* The link rewrite of _create_html.                                       *)
(***************************************************************************)
\* str.replace(old, new) cut short after the first occurrence
RECURSIVE replace_first_from(_, _, _, _, _)
replace_first_from(s, old, new, i, acc) ==
    IF i > Len(s) THEN acc
    ELSE IF i + Len(old) - 1 <= Len(s) /\ SubSeq(s, i, i + Len(old) - 1) = old
         THEN acc \o new \o SubSeq(s, i + Len(old), Len(s))
         ELSE replace_first_from(s, old, new, i + 1, Append(acc, s[i]))

replace_first(s, old, new) == replace_first_from(s, old, new, 1, <<>>)

\* str.replace(old, new), old non-empty: the occurrences of old are found from
\* the left, each search resuming after the previous occurrence
RECURSIVE replace_from(_, _, _, _, _)
replace_from(s, old, new, i, acc) ==
    IF i > Len(s) THEN acc
    ELSE IF i + Len(old) - 1 <= Len(s) /\ SubSeq(s, i, i + Len(old) - 1) = old
         THEN replace_from(s, old, new, i + Len(old), acc \o new)
         ELSE replace_from(s, old, new, i + 1, Append(acc, s[i]))

replace(s, old, new) == replace_from(s, old, new, 1, <<>>)

EncStatic == <<"%", "7", "B", "s", "t", "a", "t", "i", "c", "%", "7", "D">>
EncAttach == <<"%", "7", "B", "a", "t", "t", "a", "c", "h", "%", "7", "D">>
EncFilename == <<"%", "7", "B", "f", "i", "l", "e", "n", "a", "m", "e", "%", "7", "D">>
RawStatic == <<"{", "s", "t", "a", "t", "i", "c", "}">>
RawAttach == <<"{", "a", "t", "t", "a", "c", "h", "}">>
RawFilename == <<"{", "f", "i", "l", "e", "n", "a", "m", "e", "}">>

\* the items of the dict, in insertion order
ENCODED_LINKS_TO_RAW_LINKS_MAP ==
    << <<EncStatic, RawStatic>>, <<EncAttach, RawAttach>>,
       <<EncFilename, RawFilename>> >>

\* for encoded_str, raw_str in items: output = output.replace(encoded_str, raw_str)
RECURSIVE replace_each(_, _)
replace_each(text, items) ==
    IF items = <<>> THEN text
    ELSE replace_each(replace(text, Head(items)[1], Head(items)[2]), Tail(items))

rewrite_links(text) == replace_each(text, ENCODED_LINKS_TO_RAW_LINKS_MAP)

(***************************************************************************)
(* HTML bodies for the link rewrite: whole placeholders, their pieces and  *)
(* other text, in every arrangement of at most n chunks.                   *)
(***************************************************************************)
LinkChunks ==
    { EncStatic, EncAttach, EncFilename, RawStatic,
      <<"%", "7", "B">>, <<"%", "7", "D">>, <<"s", "t", "a", "t", "i", "c">>,
      <<"a">> }

Bodies(n) == {Concat(cs) : cs \in ChunkSeqs(LinkChunks, n)}

(***************************************************************************)
(* MySTReader._process_metadata, with BaseReader.process_metadata the      *)
(* identity.  A dict is a function on its keys; the items of the           *)
(* converter's metadata come in the order of the JSON object.              *)
(***************************************************************************)
UpperCase == <<"A", "B", "C", "D", "E", "F", "G", "H", "I", "J", "K", "L", "M", "N", "O", "P", "Q", "R", "S", "T", "U", "V", "W", "X", "Y", "Z">>
LowerCase == <<"a", "b", "c", "d", "e", "f", "g", "h", "i", "j", "k", "l", "m", "n", "o", "p", "q", "r", "s", "t", "u", "v", "w", "x", "y", "z">>

lower_char(c) ==
    IF \E i \in 1..Len(UpperCase) : UpperCase[i] = c
    THEN LowerCase[CHOOSE i \in 1..Len(UpperCase) : UpperCase[i] = c]
    ELSE c

\* str.lower()
lower(s) == [i \in 1..Len(s) |-> lower_char(s[i])]

\* str.lstrip(chars) and str.strip(chars)
RECURSIVE lstrip_chars(_, _)
lstrip_chars(s, chars) ==
    IF s # <<>> /\ Head(s) \in chars THEN lstrip_chars(Tail(s), chars) ELSE s

RECURSIVE rstrip_chars(_, _)
rstrip_chars(s, chars) ==
    IF s # <<>> /\ s[Len(s)] \in chars
    THEN rstrip_chars(SubSeq(s, 1, Len(s) - 1), chars)
    ELSE s

strip_chars(s, chars) == rstrip_chars(lstrip_chars(s, chars), chars)

\* metadata[key] = value
SetItem(d, key, value) ==
    [k \in DOMAIN d \cup {key} |-> IF k = key THEN value ELSE d[k]]

\* the host's per-key hook, here the identity
process_metadata(key, value) == value

\* value.strip().strip('"') for a non-empty str, any other value as it is
clean_value(value) ==
    IF value.t = "str" /\ value.s # <<>>
    THEN PyStr(strip_chars(strip_chars(value.s, Whitespace), {"\""}))
    ELSE value

RECURSIVE process_items(_, _)
process_items(items, acc) ==
    IF items = <<>> THEN acc
    ELSE LET key == lower(Head(items)[1])
             value == clean_value(Head(items)[2])
         IN process_items(Tail(items), SetItem(acc, key, process_metadata(key, value)))

_process_metadata(items) == process_items(items, <<>>)

(***************************************************************************)
(* Metadata records of the converter: at most n items, the string values   *)
(* of at most `chunks` pieces.                                             *)
(***************************************************************************)
MetaKeys == {Concat(cs) : cs \in ChunkSeqs({<<"t">>, <<"T">>}, 2)} \ {<<>>}

MetaValues(chunks) ==
    {PyStr(Concat(cs)) : cs \in ChunkSeqs({<<" ">>, <<"\"">>, <<"x">>}, chunks)}
    \cup {PyInt(7)}

RECURSIVE MetadataRecords(_, _)
MetadataRecords(n, chunks) ==
    IF n = 0 THEN {<<>>}
    ELSE LET shorter == MetadataRecords(n - 1, chunks)
         IN shorter \cup {Append(is, <<k, v>>) :
                              is \in shorter, k \in MetaKeys, v \in MetaValues(chunks)}

(***************************************************************************)
(* MySTReader._calculate_reading_time.  The word count comes from          *)
(* mwc.counter.count_words_in_markdown, an int >= 0.  Word counts and      *)
(* speeds are integers far below 2^53, where float() and the float         *)
(* quotient lose nothing that math.ceil could see.                         *)
(***************************************************************************)
DEFAULT_READING_SPEED == 200
MsgSpeed == "READING_SPEED setting must be a number."

PyList == [t |-> "list"]

Digits == <<"0", "1", "2", "3", "4", "5", "6", "7", "8", "9">>
DigitValue(c) == (CHOOSE i \in 1..10 : Digits[i] = c) - 1
IsDigit(c) == \E i \in 1..10 : Digits[i] = c

RECURSIVE parse_digits(_, _)
parse_digits(s, acc) ==
    IF s = <<>> THEN acc
    ELSE parse_digits(Tail(s), 10 * acc + DigitValue(Head(s)))

\* float(x): an int as it is, a str of decimal digits as the number it
\* writes, any other str a ValueError, None and a list a TypeError
float(x) ==
    CASE x.t = "int" -> Returned(x.n)
      [] x.t = "str" ->
            IF x.s # <<>> /\ \A i \in 1..Len(x.s) : IsDigit(x.s[i])
            THEN Returned(parse_digits(x.s, 0))
            ELSE Raised("ValueError", "could not convert string to float")
      [] OTHER -> Raised("TypeError", "float() argument must be a string or a number")

\* str(n) for an int n >= 0
RECURSIVE str_of_int(_)
str_of_int(n) ==
    IF n < 10 THEN <<Digits[n + 1]>>
    ELSE Append(str_of_int(n \div 10), Digits[(n % 10) + 1])

\* a variant that rounds the quotient down
floor_of_quotient(w, r) == w \div r

\* math.ceil(w / r) for w >= 0 and r > 0
ceil_of_quotient(w, r) == (w + r - 1) \div r

Minute == <<"m", "i", "n", "u", "t", "e">>
Minutes == <<"m", "i", "n", "u", "t", "e", "s">>

_calculate_reading_time(config, wordcount) ==
    LET reading_speed == Get(config, "READING_SPEED", PyInt(DEFAULT_READING_SPEED))
        speed == float(reading_speed)
    IN IF speed.kind = "ValueError" THEN Raised("ValueError", MsgSpeed)
       ELSE IF speed.kind # "return" THEN speed
       ELSE IF speed.value = 0
       THEN Raised("ZeroDivisionError", "float division by zero")
       ELSE LET reading_time == ceil_of_quotient(wordcount, speed.value)
                time_unit == IF reading_time = 1 THEN Minute ELSE Minutes
            IN Returned(str_of_int(reading_time) \o <<" ">> \o time_unit)

(***************************************************************************)
(* READING_SPEED settings and word counts.                                 *)
(***************************************************************************)
ReadingSpeeds(fastest) ==
    {PyInt(n) : n \in 0..fastest}
    \cup {PyStr(str_of_int(n)) : n \in {1, 2, 10, 200}}
    \cup {PyStr(<<>>), PyStr(<<"f", "a", "s", "t">>), PyStr(<<"2", "x">>),
          PyNone, PyList}

SpeedSettings(fastest) ==
    {[k \in {"READING_SPEED"} |-> v] : v \in ReadingSpeeds(fastest)} \cup {<<>>}

(***************************************************************************)
(* os.path on absolute POSIX paths, and os.walk.                           *)
(***************************************************************************)
\* the position of the last occurrence of character c in s, 0 when none
LastIndex(s, c) ==
    IF \E i \in 1..Len(s) : s[i] = c
    THEN CHOOSE i \in 1..Len(s) : s[i] = c /\ \A j \in (i + 1)..Len(s) : s[j] # c
    ELSE 0

basename(path) == SubSeq(path, LastIndex(path, "/") + 1, Len(path))

\* os.path.dirname of a path below the root directory
dirname(path) == SubSeq(path, 1, LastIndex(path, "/") - 1)

\* os.path.splitext(name)[0]: the name up to its last dot; leading dots of the
\* name belong to the stem
splitext_root(name) ==
    LET dot == LastIndex(name, ".")
    IN IF dot = 0 \/ \A i \in 1..(dot - 1) : name[i] = "." THEN name
       ELSE SubSeq(name, 1, dot - 1)

\* os.path.join(root, name)
join(root, name) == root \o <<"/">> \o name

IsPrefix(a, b) == Len(a) <= Len(b) /\ SubSeq(b, 1, Len(a)) = a

\* the directories os.walk(top) visits: top and every directory below it
WalkedDirs(tree, top) ==
    {d \in DOMAIN tree : d = top \/ IsPrefix(top \o <<"/">>, d)}

\* the orders in which os.walk(top) can yield them: top-down, the order
\* among siblings left to the file system
WalkOrders(tree, top) ==
    LET ds == WalkedDirs(tree, top)
        n == Cardinality(ds)
    IN {o \in [1..n -> ds] :
            /\ \A i, j \in 1..n : i # j => o[i] # o[j]
            /\ \A i, j \in 1..n : (o[i] # o[j] /\ IsPrefix(o[i] \o <<"/">>, o[j])) => i < j}

(***************************************************************************)
(* MySTReader._find_bibs                                                   *)
(***************************************************************************)
VALID_BIB_EXTENSIONS == <<<<"j", "s", "o", "n">>, <<"y", "a", "m", "l">>, <<"b", "i", "b", "t", "e", "x">>, <<"b", "i", "b">>>>

\* a variant whose inner loop stops at the first extension found
RECURSIVE bibs_in_dir_first_only(_, _, _, _)
bibs_in_dir_first_only(root, files, filename, extensions) ==
    IF extensions = <<>> THEN <<>>
    ELSE LET bib_name == filename \o <<".">> \o Head(extensions)
         IN IF bib_name \in files THEN <<join(root, bib_name)>>
            ELSE bibs_in_dir_first_only(root, files, filename, Tail(extensions))

\* the inner loop: for extension in VALID_BIB_EXTENSIONS, in one directory
RECURSIVE bibs_in_dir(_, _, _, _)
bibs_in_dir(root, files, filename, extensions) ==
    IF extensions = <<>> THEN <<>>
    ELSE LET bib_name == filename \o <<".">> \o Head(extensions)
             others == bibs_in_dir(root, files, filename, Tail(extensions))
         IN IF bib_name \in files THEN <<join(root, bib_name)>> \o others ELSE others

\* the outer loop: for root, _, files in os.walk(directory_path)
RECURSIVE bibs_in_walk(_, _, _)
bibs_in_walk(tree, walk, filename) ==
    IF walk = <<>> THEN <<>>
    ELSE bibs_in_dir(Head(walk), tree[Head(walk)], filename, VALID_BIB_EXTENSIONS)
         \o bibs_in_walk(tree, Tail(walk), filename)

_find_bibs(tree, walk, path) ==
    bibs_in_walk(tree, walk, splitext_root(basename(path)))

\* the grave accent U+0060 of the code fence, a character that a TLA+ string
\* cannot hold
Backtick == "U+0060"

\* the directive appended for one bibliography file
bibliography_block(bib_file) ==
    <<"\n", "\n", Backtick, Backtick, Backtick, "{", "b", "i", "b", "l", "i", "o", "g", "r", "a", "p", "h", "y", "}", " ">> \o bib_file \o <<"\n", Backtick, Backtick, Backtick, "\n", "\n">>

RECURSIVE append_bibliographies(_, _)
append_bibliographies(text, bib_files) ==
    IF bib_files = <<>> THEN text
    ELSE append_bibliographies(text \o bibliography_block(Head(bib_files)), Tail(bib_files))

(***************************************************************************)
(* The converter's output and MySTReader._extract_contents.  The output is *)
(* a first line and, after the first newline, an HTML document: a sequence *)
(* of nodes, inside a body element or not.                                 *)
(***************************************************************************)
Element(tag, id, inner) == [node |-> "element", tag |-> tag, id |-> id, inner |-> inner]
TextNode(chars) == [node |-> "text", chars |-> chars]
\* an element whose children are nodes
Wrapper(tag, kids) == [node |-> "wrapper", tag |-> tag, kids |-> kids]

RECURSIVE str_of_nodes(_)

\* str(node)
str_of_node(n) ==
    IF n.node = "text" THEN n.chars
    ELSE IF n.node = "wrapper"
    THEN <<"<">> \o n.tag \o <<">">> \o str_of_nodes(n.kids) \o <<"<", "/">> \o n.tag \o <<">">>
    ELSE <<"<">> \o n.tag
         \o (IF n.id = <<>> THEN <<>> ELSE <<" ", "i", "d", "=", "\"">> \o n.id \o <<"\"">>)
         \o <<">">> \o n.inner \o <<"<", "/">> \o n.tag \o <<">">>

str_of_nodes(ns) ==
    IF ns = <<>> THEN <<>> ELSE str_of_node(Head(ns)) \o str_of_nodes(Tail(ns))

IsTocNav(n) == n.node = "element" /\ n.tag = <<"n", "a", "v">> /\ n.id = <<"T", "O", "C">>

\* soup.body.find("nav", id="TOC"): the path (positions from the body down)
\* of the first such node in document order, << >> for None
RECURSIVE find_toc(_)
find_toc(ns) ==
    LET holds(i) == \/ IsTocNav(ns[i])
                    \/ ns[i].node = "wrapper" /\ find_toc(ns[i].kids) # <<>>
    IN IF \E i \in 1..Len(ns) : holds(i)
       THEN LET i == CHOOSE k \in 1..Len(ns) : holds(k) /\ \A j \in 1..(k - 1) : ~holds(j)
            IN IF IsTocNav(ns[i]) THEN <<i>> ELSE <<i>> \o find_toc(ns[i].kids)
       ELSE <<>>

\* the node a path leads to
RECURSIVE node_at(_, _)
node_at(ns, path) ==
    IF Len(path) = 1 THEN ns[path[1]] ELSE node_at(ns[path[1]].kids, Tail(path))

\* a variant that removes the whole top-level branch the node is in
decompose_branch(ns, path) ==
    SubSeq(ns, 1, path[1] - 1) \o SubSeq(ns, path[1] + 1, Len(ns))

\* tag.decompose() of the node a path leads to
RECURSIVE decompose(_, _)
decompose(ns, path) ==
    IF Len(path) = 1
    THEN SubSeq(ns, 1, path[1] - 1) \o SubSeq(ns, path[1] + 1, Len(ns))
    ELSE [ns EXCEPT ![path[1]] = Wrapper(@.tag, decompose(@.kids, Tail(path)))]

\* str.strip()
strip(chars) == strip_chars(chars, Whitespace)

IdToc == <<"i", "d", "=", "\"", "T", "O", "C", "\"">>
ClassToc == <<"c", "l", "a", "s", "s", "=", "\"", "t", "o", "c", "\"">>

_extract_contents(html_output, table_of_contents) ==
    IF ~html_output.first_line.valid
    THEN Raised("JSONDecodeError", "Expecting value")
    ELSE IF ~html_output.has_body
    THEN Raised("AttributeError", "'NoneType' object has no attribute")
    ELSE LET at == IF table_of_contents THEN find_toc(html_output.nodes) ELSE <<>>
             found == IF ~table_of_contents THEN PyStr(<<>>)
                      ELSE IF at = <<>> THEN PyNone
                      ELSE PyStr(replace(str_of_node(node_at(html_output.nodes, at)),
                                         IdToc, ClassToc))
             kept == IF at = <<>> THEN html_output.nodes ELSE decompose(html_output.nodes, at)
         IN Returned([html_output |-> strip(str_of_nodes(kept)),
                      toc |-> found,
                      myst_metadata |-> html_output.first_line.value])

(***************************************************************************)
(* json.loads and json.dumps on the JSON texts the model uses: null, true, *)
(* false, unsigned integers, strings without escapes, the empty array, and *)
(* objects of at most one member whose value is one of these.              *)
(***************************************************************************)
JsonWhitespace == {" ", "\t", "\n", "\r"}
PyBool(b) == [t |-> "bool", b |-> b]
JsonInvalid == [valid |-> FALSE]
JsonValue(v) == [valid |-> TRUE, value |-> v]

IsJsonString(t) ==
    /\ Len(t) >= 2
    /\ t[1] = "\"" /\ t[Len(t)] = "\""
    /\ \A i \in 2..(Len(t) - 1) : t[i] \notin {"\"", "\\", "\n", "\r", "\t"}

IsJsonNumber(t) ==
    /\ t # <<>>
    /\ \A i \in 1..Len(t) : IsDigit(t[i])
    /\ Len(t) = 1 \/ t[1] # "0"

\* a value that is no object
json_scalar(t) ==
    IF t = <<"n", "u", "l", "l">> THEN JsonValue(PyNone)
    ELSE IF t = <<"t", "r", "u", "e">> THEN JsonValue(PyBool(TRUE))
    ELSE IF t = <<"f", "a", "l", "s", "e">> THEN JsonValue(PyBool(FALSE))
    ELSE IF IsJsonNumber(t) THEN JsonValue(PyInt(parse_digits(t, 0)))
    ELSE IF IsJsonString(t) THEN JsonValue(PyStr(SubSeq(t, 2, Len(t) - 1)))
    ELSE IF /\ Len(t) >= 2 /\ t[1] = "[" /\ t[Len(t)] = "]"
            /\ strip_chars(SubSeq(t, 2, Len(t) - 1), JsonWhitespace) = <<>>
    THEN JsonValue(PyList)
    ELSE JsonInvalid

\* json.loads(s): the value, an object as its sequence of (key, value)
\* items, or the decode error
json_loads(s) ==
    LET t == strip_chars(s, JsonWhitespace)
    IN IF Len(t) >= 2 /\ t[1] = "{" /\ t[Len(t)] = "}"
       THEN LET inner == strip_chars(SubSeq(t, 2, Len(t) - 1), JsonWhitespace)
                name(k) == strip_chars(SubSeq(inner, 1, k - 1), JsonWhitespace)
                member(k) == strip_chars(SubSeq(inner, k + 1, Len(inner)), JsonWhitespace)
                colons == {k \in 1..Len(inner) :
                              /\ inner[k] = ":"
                              /\ IsJsonString(name(k))
                              /\ json_scalar(member(k)).valid}
            IN IF inner = <<>> THEN JsonValue(<<>>)
               ELSE IF colons = {} THEN JsonInvalid
               ELSE LET k == CHOOSE c \in colons : TRUE
                    IN JsonValue(<< <<SubSeq(name(k), 2, Len(name(k)) - 1),
                                      json_scalar(member(k)).value>> >>)
       ELSE json_scalar(t)

\* json.dumps of a value that is no object
json_dumps_scalar(v) ==
    CASE v.t = "NoneType" -> <<"n", "u", "l", "l">>
      [] v.t = "int" -> str_of_int(v.n)
      [] v.t = "str" -> <<"\"">> \o v.s \o <<"\"">>
      [] v.t = "list" -> <<"[", "]">>

\* json.dumps of an object
RECURSIVE json_dumps_items(_)
json_dumps_items(items) ==
    IF items = <<>> THEN <<>>
    ELSE <<"\"">> \o Head(items)[1] \o <<"\"", ":", " ">> \o json_dumps_scalar(Head(items)[2])
         \o (IF Len(items) = 1 THEN <<>> ELSE <<",", " ">> \o json_dumps_items(Tail(items)))

json_dumps(items) == <<"{">> \o json_dumps_items(items) \o <<"}">>

\* str.partition("\n"): the text before the first newline, and the text
\* after it
NewlineAt(s) ==
    IF \E i \in 1..Len(s) : s[i] = "\n"
    THEN CHOOSE i \in 1..Len(s) : s[i] = "\n" /\ \A j \in 1..(i - 1) : s[j] # "\n"
    ELSE Len(s) + 1

partition_head(s) == SubSeq(s, 1, NewlineAt(s) - 1)
partition_tail(s) == SubSeq(s, NewlineAt(s) + 1, Len(s))

\* what _extract_contents makes of a converter's output: the first line read
\* by json.loads, and the HTML document after it
parsed_output(first_line, has_body, nodes) ==
    [first_line |-> json_loads(first_line), has_body |-> has_body, nodes |-> nodes]

\* what it makes of a string that is an HTML fragment with no body element:
\* the text up to the first newline read by json.loads, and a document
\* whose body is None
parsed_fragment(chars) ==
    parsed_output(partition_head(chars), FALSE, <<TextNode(partition_tail(chars))>>)

(***************************************************************************)
(* The reader's inputs: settings, file systems, documents, outputs of the  *)
(* converter and word counts.                                              *)
(***************************************************************************)
Gfm == <<"g", "f", "m">>
Rst == <<"r", "s", "t">>
Pdf == <<"p", "d", "f">>

ValidDefaults == [k \in {"reader", "writer"} |-> IF k = "reader" THEN Gfm ELSE Html5T]

DefaultFiles ==
    { <<>>,
      <<ValidDefaults>>,
      <<[k \in {"writer"} |-> Html5T]>>,
      <<[k \in {"reader", "to"} |-> IF k = "reader" THEN Rst ELSE Html5T]>>,
      <<[k \in {"reader", "from", "to"} |-> IF k = "to" THEN Html5T ELSE Gfm]>>,
      <<[k \in {"reader", "writer", "to"} |-> IF k = "reader" THEN Gfm ELSE Html5T]>>,
      <<[k \in {"reader"} |-> Gfm]>>,
      <<[k \in {"reader", "to"} |-> IF k = "reader" THEN Gfm ELSE Pdf]>> }

ExtensionSettings == {PyNone, [t |-> "list", items |-> <<>>], [t |-> "list", items |-> <<"deflist">>]}

ReaderSettings ==
    {[MYST_DEFAULT_FILES |-> d, MYST_EXTENSIONS |-> e,
      CALCULATE_READING_TIME |-> c, READING_SPEED |-> r] :
        d \in DefaultFiles, e \in ExtensionSettings, c \in BOOLEAN,
        r \in {PyInt(DEFAULT_READING_SPEED), PyStr(<<"f", "a", "s", "t">>), PyNone}}

plain_settings ==
    [MYST_DEFAULT_FILES |-> <<>>, MYST_EXTENSIONS |-> [t |-> "list", items |-> <<>>],
     CALCULATE_READING_TIME |-> FALSE, READING_SPEED |-> PyInt(DEFAULT_READING_SPEED)]

DirC == <<"/", "c">>
DirR == <<"/", "c", "/", "r">>
DirO == <<"/", "c", "/", "o">>
Dirs == <<DirC, DirR, DirO>>

BibNames == <<<<"p", ".", "b", "i", "b">>, <<"q", ".", "b", "i", "b">>, <<"p", ".", "j", "s", "o", "n">>, <<"p", ".", "y", "a", "m", "l">>, <<"p", ".", "b", "i", "b", "t", "e", "x">>>>

SourcePaths == {<<"/", "c", "/", "p", ".", "m", "d">>, <<"/", "c", "/", "r", "/", "p", ".", "m", "d">>}

\* every file system over the directories whose files are among the first
\* `names` names of BibNames, the last directory holding the first name or
\* nothing
FileSystems(names) ==
    {t \in [{Dirs[i] : i \in 1..3} -> SUBSET {BibNames[i] : i \in 1..names}] :
         t[DirO] \subseteq {BibNames[1]}}

FewFileSystems ==
    { [d \in {Dirs[i] : i \in 1..3} |-> {}],
      [d \in {Dirs[i] : i \in 1..3} |-> IF d = DirC THEN {BibNames[1]} ELSE {}],
      [d \in {Dirs[i] : i \in 1..3} |-> IF d = DirR THEN {BibNames[1], BibNames[3]} ELSE {}] }

DocumentTexts ==
    { <<>>, <<"a", "\n">>, <<"-", "-", "-", "\n", "a", "\n">>, <<"-", "-", "-", "\n", "-", "-", "-", "\n">>, <<"-", "-", "-", "\n", "a", "\n", "-", "-", "-", "\n", "b">>, <<"-", "-", "-", " ", "\n", "a", "\n", ".", ".", ".", "\n">> }

NavToc == Element(<<"n", "a", "v">>, <<"T", "O", "C">>, <<"t">>)
NavOther == Element(<<"n", "a", "v">>, <<"m">>, <<"x">>)
ParaLink == Element(<<"p">>, <<>>, <<"%", "7", "B", "s", "t", "a", "t", "i", "c", "%", "7", "D", "a">>)

JsonObjects ==
    { << <<<<"T", "i", "t", "l", "e">>, PyStr(<<" ", "\"", "x", "\"", " ">>)>> >>,
      << <<<<"t", "a", "g", "s">>, PyList>>, <<<<"t", "o", "c">>, PyStr(<<"f">>)>> >> }

FirstLines == {[valid |-> TRUE, value |-> o] : o \in JsonObjects} \cup {[valid |-> FALSE]}

HtmlDocuments ==
    { [has_body |-> TRUE, nodes |-> <<TextNode(<<"\n">>), NavToc, ParaLink, TextNode(<<"\n">>)>>],
      [has_body |-> TRUE, nodes |-> <<ParaLink, NavOther>>],
      [has_body |-> TRUE, nodes |-> <<>>],
      [has_body |-> FALSE, nodes |-> <<ParaLink>>] }

ConverterOutputs ==
    {[first_line |-> f, has_body |-> h.has_body, nodes |-> h.nodes] :
         f \in FirstLines, h \in HtmlDocuments}

WordCounts == {0, 1, DEFAULT_READING_SPEED, DEFAULT_READING_SPEED + 1}

(***************************************************************************)
(* The reader at rest, for the specifications that call one helper.        *)
(***************************************************************************)
ReaderIdle ==
    /\ settings = <<>>
    /\ enable_extensions = <<>>
    /\ pc = "idle"
    /\ fs = <<>>
    /\ source_path = <<>>
    /\ file_content = <<>>
    /\ content = <<>>
    /\ myst_calls = <<>>
    /\ output = <<>>
    /\ toc = <<>>
    /\ myst_metadata = <<>>
    /\ metadata = <<>>
    /\ result = NoOutcome
    /\ docs_read = 0

(***************************************************************************)
(* SpecYaml: one call of _check_yaml_metadata_block on any text.           *)
(***************************************************************************)
InitYaml ==
    /\ call \in {[fn |-> "_check_yaml_metadata_block", text |-> t] : t \in Texts(MaxChunks)}
    /\ ret = NoOutcome
    /\ ReaderIdle

CallCheckYaml ==
    /\ ret = NoOutcome
    /\ call.fn = "_check_yaml_metadata_block"
    /\ ret' = _check_yaml_metadata_block(call.text)
    /\ UNCHANGED <<call, reader_vars>>

NextYaml == CallCheckYaml
SpecYaml == InitYaml /\ [][NextYaml]_vars

\* the lines of a text after its first line, trailing whitespace trimmed
LaterLines(text) ==
    LET ls == splitlines(text) IN {rstrip(ls[i]) : i \in 2..Len(ls)}

\* C1: the checker fails exactly when (a) the content is empty, (b) the first
\* line, trimmed on the right, is not '---', or (c) no later line is, trimmed
\* on the right, '---' or '...'; every other text is accepted.
C1_FailsExactlyInThreeCases ==
    ret # NoOutcome =>
        LET text == call.text
            a == text = <<>>
            b == text # <<>> /\ rstrip(splitlines(text)[1]) # Dashes
            c == text # <<>> /\ LaterLines(text) \cap {Dashes, Dots} = {}
        IN (ret.kind = "Exception") <=> (a \/ b \/ c)

\* a text whose closing delimiter is the line right after the opening one
C1_ClosingRightAfterOpening ==
    /\ ret # NoOutcome
    /\ Len(splitlines(call.text)) >= 2
    /\ rstrip(splitlines(call.text)[1]) = Dashes
    /\ rstrip(splitlines(call.text)[2]) \in {Dashes, Dots}

(***************************************************************************)
(* SpecInFmt: one call of _check_input_format on any settings record.      *)
(***************************************************************************)
InitInFmt ==
    /\ call \in {[fn |-> "_check_input_format", defaults |-> d] : d \in InputDefaults(MaxInChunks)}
    /\ ret = NoOutcome
    /\ ReaderIdle

CallCheckInputFormat ==
    /\ ret = NoOutcome
    /\ call.fn = "_check_input_format"
    /\ ret' = _check_input_format(call.defaults)
    /\ UNCHANGED <<call, reader_vars>>

NextInFmt == CallCheckInputFormat
SpecInFmt == InitInFmt /\ [][NextInFmt]_vars

\* a key is set when the record holds a non-empty value for it (the code
\* reads every key with a default of "")
IsSet(d, key) == key \in DOMAIN d /\ d[key] # <<>>

\* the part of a format before its first '+' or '-'
BaseToken(s) ==
    LET n == CHOOSE k \in 0..Len(s) :
                 /\ \A i \in 1..k : s[i] \notin {"+", "-"}
                 /\ k = Len(s) \/ s[k + 1] \in {"+", "-"}
    IN SubSeq(s, 1, n)

\* C3: neither reader nor from set: 'No input format specified.'; both set:
\* the 'both from and reader' error whatever the values; exactly one set:
\* 'Input type has to be a Markdown variant.' exactly when the part before the
\* first '+' or '-' is none of the seven variant names, and otherwise the
\* declared format is returned unchanged.
C3_InputFormatValidator ==
    ret # NoOutcome =>
        LET d == call.defaults
            declared == IF IsSet(d, "reader") THEN d["reader"] ELSE d["from"]
        IN IF ~IsSet(d, "reader") /\ ~IsSet(d, "from")
           THEN ret = Raised("ValueError", MsgNoInput)
           ELSE IF IsSet(d, "reader") /\ IsSet(d, "from")
           THEN ret = Raised("ValueError", MsgBothInput)
           ELSE IF BaseToken(declared) \in VALID_INPUT_FORMATS
           THEN ret = Returned(declared)
           ELSE ret = Raised("ValueError", MsgNotMarkdown)

\* a format with a '+' suffix on a variant name has been accepted
C3_SuffixedVariantAccepted ==
    /\ ret.kind = "return"
    /\ \E i \in 1..Len(ret.value) : ret.value[i] = "+"
    /\ BaseToken(ret.value) # ret.value

(***************************************************************************)
(* SpecOutFmt: one call of _check_output_format on any settings record.    *)
(***************************************************************************)
InitOutFmt ==
    /\ call \in {[fn |-> "_check_output_format", defaults |-> d] : d \in OutputDefaults(MaxOutChunks)}
    /\ ret = NoOutcome
    /\ ReaderIdle

CallCheckOutputFormat ==
    /\ ret = NoOutcome
    /\ call.fn = "_check_output_format"
    /\ ret' = _check_output_format(call.defaults)
    /\ UNCHANGED <<call, reader_vars>>

NextOutFmt == CallCheckOutputFormat
SpecOutFmt == InitOutFmt /\ [][NextOutFmt]_vars

Html == <<"h", "t", "m", "l">>
Html5 == <<"h", "t", "m", "l", "5">>

\* C4: both writer and to set: the 'both to and writer' error, before any look
\* at the tokens; otherwise 'Output format type must be either html or html5.'
\* exactly when neither value is html or html5; otherwise the validator
\* returns, and nothing but the outcome of the call has changed.
C4_OutputFormatValidator ==
    ret # NoOutcome =>
        LET d == call.defaults
            IsHtml(key) == key \in DOMAIN d /\ d[key] \in {Html, Html5}
        IN /\ IF IsSet(d, "writer") /\ IsSet(d, "to")
              THEN ret = Raised("ValueError", MsgBothOutput)
              ELSE IF ~IsHtml("writer") /\ ~IsHtml("to")
              THEN ret = Raised("ValueError", MsgOutput)
              ELSE ret = Returned(PyNone)
           /\ ReaderIdle

\* both keys set, neither to an HTML token, and the 'both' error came out
C4_BothSetTakesPrecedence ==
    /\ ret = Raised("ValueError", MsgBothOutput)
    /\ call.defaults["writer"] \notin {Html, Html5}
    /\ call.defaults["to"] \notin {Html, Html5}

(***************************************************************************)
(* SpecLinks: the link rewrite applied to any body.                        *)
(***************************************************************************)
InitLinks ==
    /\ call \in {[fn |-> "rewrite_links", body |-> b] : b \in Bodies(MaxLinkChunks)}
    /\ ret = NoOutcome
    /\ ReaderIdle

CallRewriteLinks ==
    /\ ret = NoOutcome
    /\ call.fn = "rewrite_links"
    /\ ret' = Returned(rewrite_links(call.body))
    /\ UNCHANGED <<call, reader_vars>>

NextLinks == CallRewriteLinks
SpecLinks == InitLinks /\ [][NextLinks]_vars

Occurs(pat, s, i) ==
    i + Len(pat) - 1 <= Len(s) /\ SubSeq(s, i, i + Len(pat) - 1) = pat

Contains(s, pat) == \E i \in 1..Len(s) : Occurs(pat, s, i)

\* one pass over the body: wherever a placeholder starts, its raw form is
\* written and the placeholder skipped; every other character is copied
RECURSIVE DecodedFrom(_, _)
DecodedFrom(s, i) ==
    IF i > Len(s) THEN <<>>
    ELSE IF \E k \in 1..3 : Occurs(ENCODED_LINKS_TO_RAW_LINKS_MAP[k][1], s, i)
         THEN LET k == CHOOSE j \in 1..3 :
                           Occurs(ENCODED_LINKS_TO_RAW_LINKS_MAP[j][1], s, i)
                  item == ENCODED_LINKS_TO_RAW_LINKS_MAP[k]
              IN item[2] \o DecodedFrom(s, i + Len(item[1]))
         ELSE <<s[i]>> \o DecodedFrom(s, i + 1)

Orders == {o \in [1..3 -> 1..3] : \A i, j \in 1..3 : i # j => o[i] # o[j]}

InOrder(o) == [i \in 1..3 |-> ENCODED_LINKS_TO_RAW_LINKS_MAP[o[i]]]

\* C6: the rewrite turns every occurrence of the three encoded placeholders
\* into its raw form and copies every other character, no encoded placeholder
\* is left in the result, and the three replacements give the same result in
\* each of their six orders.
C6_LinkRewrite ==
    ret # NoOutcome =>
        /\ ret.value = DecodedFrom(call.body, 1)
        /\ \A k \in 1..3 : ~Contains(ret.value, ENCODED_LINKS_TO_RAW_LINKS_MAP[k][1])
        /\ \A o \in Orders : replace_each(call.body, InOrder(o)) = ret.value

\* a body with two occurrences of one placeholder and other text was rewritten
C6_TwoOccurrencesRewritten ==
    /\ ret # NoOutcome
    /\ \E i, j \in 1..Len(call.body) :
           /\ i < j
           /\ Occurs(EncStatic, call.body, i)
           /\ Occurs(EncStatic, call.body, j)
    /\ Contains(call.body, <<"a">>)
    /\ ret.value # call.body

(***************************************************************************)
(* SpecMeta: _process_metadata on any metadata record of the converter.    *)
(***************************************************************************)
InitMeta ==
    /\ call \in {[fn |-> "_process_metadata", myst_metadata |-> r] :
                     r \in MetadataRecords(MaxItems, MaxValueChunks)}
    /\ ret = NoOutcome
    /\ ReaderIdle

CallProcessMetadata ==
    /\ ret = NoOutcome
    /\ call.fn = "_process_metadata"
    /\ ret' = Returned(_process_metadata(call.myst_metadata))
    /\ UNCHANGED <<call, reader_vars>>

NextMeta == CallProcessMetadata
SpecMeta == InitMeta /\ [][NextMeta]_vars

IsLowerCase(s) == \A i \in 1..Len(s) : \A j \in 1..Len(UpperCase) : s[i] # UpperCase[j]

\* C7: in the normalized metadata every key is lower-case, keys that differ
\* only in case are one entry, and no string value begins or ends with
\* whitespace or with a double quote.
C7_NormalizedMetadata ==
    ret # NoOutcome =>
        LET items == call.myst_metadata
            md == ret.value
        IN /\ \A k \in DOMAIN md : IsLowerCase(k)
           /\ \A i \in 1..Len(items) :
                  \E k \in DOMAIN md :
                      /\ Len(k) = Len(items[i][1])
                      /\ \A j \in 1..Len(k) :
                             k[j] = items[i][1][j] \/ ~IsLowerCase(<<items[i][1][j]>>)
           /\ \A k1, k2 \in DOMAIN md : lower(k1) = lower(k2) => k1 = k2
           /\ \A k \in DOMAIN md :
                  (md[k].t = "str" /\ md[k].s # <<>>) =>
                      /\ Head(md[k].s) \notin Whitespace \cup {"\""}
                      /\ md[k].s[Len(md[k].s)] \notin Whitespace \cup {"\""}

(***************************************************************************)
(* SpecTime: _calculate_reading_time for any word count and any            *)
(* READING_SPEED setting.                                                  *)
(***************************************************************************)
InitTime ==
    /\ call \in {[fn |-> "_calculate_reading_time", config |-> c, wordcount |-> w] :
                     c \in SpeedSettings(MaxSpeed), w \in 0..MaxWords}
    /\ ret = NoOutcome
    /\ ReaderIdle

CallCalculateReadingTime ==
    /\ ret = NoOutcome
    /\ call.fn = "_calculate_reading_time"
    /\ ret' = _calculate_reading_time(call.config, call.wordcount)
    /\ UNCHANGED <<call, reader_vars>>

NextTime == CallCalculateReadingTime
SpecTime == InitTime /\ [][NextTime]_vars

\* the configured speed, when it is a number: an int, or a str of digits
ConfiguredSpeed == Get(call.config, "READING_SPEED", PyInt(DEFAULT_READING_SPEED))

SpeedIsNumber ==
    \/ ConfiguredSpeed.t = "int"
    \/ /\ ConfiguredSpeed.t = "str"
       /\ ConfiguredSpeed.s # <<>>
       /\ \A i \in 1..Len(ConfiguredSpeed.s) : IsDigit(ConfiguredSpeed.s[i])

SpeedValue ==
    IF ConfiguredSpeed.t = "int" THEN ConfiguredSpeed.n
    ELSE CHOOSE n \in 0..MaxSpeed + 1 : str_of_int(n) = ConfiguredSpeed.s

Text2Minutes == <<"2", " ", "m", "i", "n", "u", "t", "e", "s">>
Text1Minute == <<"1", " ", "m", "i", "n", "u", "t", "e">>

\* C9: for w >= 0 words at a numeric speed r > 0 the estimator returns
\* '<n> minute' when n = 1 and '<n> minutes' otherwise, n = ceil(w / r), the
\* least n with w <= n * r; at the default speed 400 words give '2 minutes'
\* and 1 to 200 words give '1 minute'.
C9_ReadingTime ==
    (ret # NoOutcome /\ SpeedIsNumber /\ SpeedValue > 0) =>
        LET w == call.wordcount
            r == SpeedValue
            n == CHOOSE k \in 0..w : w <= k * r /\ (k = 0 \/ (k - 1) * r < w)
            space == CHOOSE i \in 1..Len(ret.value) : ret.value[i] = " "
        IN /\ ret.kind = "return"
           /\ parse_digits(SubSeq(ret.value, 1, space - 1), 0) = n
           /\ Len(SubSeq(ret.value, 1, space - 1)) = Len(str_of_int(n))
           /\ SubSeq(ret.value, space + 1, Len(ret.value)) =
                  IF n = 1 THEN Minute ELSE Minutes
           /\ (r = DEFAULT_READING_SPEED /\ w = 400) => ret.value = Text2Minutes
           /\ (r = DEFAULT_READING_SPEED /\ w \in 1..200) => ret.value = Text1Minute

\* 400 words at the default speed, which no setting overrides
C9_FourHundredWordsAtDefault ==
    /\ ret # NoOutcome
    /\ call.config = <<>>
    /\ call.wordcount = 400
    /\ ret.value = Text2Minutes

\* C10: a READING_SPEED that is no number (a non-numeric string, None, a
\* list) makes the estimator fail with 'READING_SPEED setting must be a
\* number.', never with another error and never with a reading time.
C10_NonNumericSpeedIsConfigurationError ==
    (ret # NoOutcome /\ ~SpeedIsNumber) => ret = Raised("ValueError", MsgSpeed)

(***************************************************************************)
(* SpecExtract: _extract_contents on a converter's output, and then once   *)
(* more on the body it returned.                                           *)
(***************************************************************************)
Para == Element(<<"p">>, <<>>, <<"h", "i">>)
NavTocQuoting == Element(<<"n", "a", "v">>, <<"T", "O", "C">>, IdToc)
Div == <<"d", "i", "v">>

NodeChoices ==
    { TextNode(<<"\n">>), TextNode(<<"7", "\n">>), Para, NavToc, NavTocQuoting,
      NavOther, Wrapper(Div, <<Para, NavToc>>) }

NodeSeqs(n) == UNION {[1..k -> NodeChoices] : k \in 0..n}

ExtractObjects ==
    { <<>>,
      << <<<<"t", "i", "t", "l", "e">>, PyStr(<<"X">>)>> >>,
      << <<<<"n">>, PyInt(7)>> >> }

FirstLineTexts ==
    {json_dumps(o) : o \in ExtractObjects}
    \cup { <<"7">>, <<"n", "u", "l", "l">>, <<"[", "]">>, <<"\"", "x", "\"">>,
           <<>>, <<"<", "p", ">">>, <<"{">>, <<" ", "{", "}", " ">> }

InitExtract ==
    /\ call \in {[fn |-> "_extract_contents", run |-> 1, first_line |-> f,
                  has_body |-> h, nodes |-> ns, table_of_contents |-> t] :
                     f \in FirstLineTexts, h \in BOOLEAN, ns \in NodeSeqs(MaxNodes),
                     t \in BOOLEAN}
    /\ ret = NoOutcome
    /\ ReaderIdle

CallExtractContents ==
    /\ ret = NoOutcome
    /\ call.fn = "_extract_contents"
    /\ ret' = _extract_contents(parsed_output(call.first_line, call.has_body, call.nodes),
                                call.table_of_contents)
    /\ UNCHANGED <<call, reader_vars>>

\* the body a call returned is given to _extract_contents again
CallExtractContentsAgain ==
    /\ call.fn = "_extract_contents"
    /\ call.run = 1
    /\ ret.kind = "return"
    /\ call' = [call EXCEPT !.run = 2,
                            !.first_line = partition_head(ret.value.html_output),
                            !.has_body = FALSE,
                            !.nodes = <<TextNode(partition_tail(ret.value.html_output))>>]
    /\ ret' = _extract_contents(parsed_fragment(ret.value.html_output),
                                call.table_of_contents)
    /\ UNCHANGED reader_vars

NextExtract == CallExtractContents \/ CallExtractContentsAgain
SpecExtract == InitExtract /\ [][NextExtract]_vars

\* the nodes of a document that have no child nodes, in document order
RECURSIVE Leaves(_)
Leaves(ns) ==
    IF ns = <<>> THEN <<>>
    ELSE (IF Head(ns).node = "wrapper" THEN Leaves(Head(ns).kids) ELSE <<Head(ns)>>)
         \o Leaves(Tail(ns))

CountOf(s, pat) == Cardinality({i \in 1..Len(s) : Occurs(pat, s, i)})

NavTocOpen == <<"<", "n", "a", "v", " ">> \o IdToc \o <<">">>
BodyOpen == <<"<", "b", "o", "d", "y">>
DivOpen == <<"<">> \o Div \o <<">">>

Trimmed(s) == s = <<>> \/ (s[1] \notin Whitespace /\ s[Len(s)] \notin Whitespace)

\* the call is the first one, on a JSON object and an HTML body
ObjectAndBody ==
    /\ call.fn = "_extract_contents"
    /\ call.run = 1
    /\ call.has_body
    /\ \E o \in ExtractObjects : call.first_line = json_dumps(o)

TocNavs == {i \in 1..Len(Leaves(call.nodes)) : IsTocNav(Leaves(call.nodes)[i])}
FirstTocNav == CHOOSE i \in TocNavs : \A j \in TocNavs : i <= j

\* C14: on a first line that is a JSON object and an HTML body, the metadata
\* returned are that object; with extraction requested and a nav element of
\* id TOC in the body, the toc is a non-empty string with class="toc" and
\* without id="TOC", and the body has lost that nav element and nothing
\* else, has no body tag and no surrounding whitespace; otherwise the toc is
\* empty, nothing is raised and the body is the body's content, trimmed.
C14_ExtractContents ==
    (ObjectAndBody /\ ret # NoOutcome) =>
        /\ ret.kind = "return"
        /\ call.first_line = json_dumps(ret.value.myst_metadata)
        /\ ret.value.myst_metadata \in ExtractObjects
        /\ Trimmed(ret.value.html_output)
        /\ ~Contains(ret.value.html_output, BodyOpen)
        /\ IF call.table_of_contents /\ TocNavs # {}
           THEN /\ ret.value.toc.t = "str"
                /\ ret.value.toc.s # <<>>
                /\ Contains(ret.value.toc.s, ClassToc)
                /\ ~Contains(ret.value.toc.s, IdToc)
                /\ CountOf(ret.value.html_output, NavTocOpen)
                       = Cardinality(TocNavs) - 1
                /\ CountOf(ret.value.html_output, DivOpen)
                       = CountOf(str_of_nodes(call.nodes), DivOpen)
                /\ \A i \in 1..Len(Leaves(call.nodes)) :
                       i # FirstTocNav =>
                           \/ strip(str_of_node(Leaves(call.nodes)[i])) = <<>>
                           \/ Contains(ret.value.html_output,
                                       strip(str_of_node(Leaves(call.nodes)[i])))
                /\ Len(ret.value.html_output) + Len(ret.value.toc.s)
                       <= Len(str_of_nodes(call.nodes)) + Len(ClassToc)
           ELSE /\ ~Truthy(ret.value.toc)
                /\ ret.value.html_output = strip(str_of_nodes(call.nodes))

\* a table of contents inside a div, after a paragraph, was extracted
C14_NestedTocExtracted ==
    /\ ObjectAndBody
    /\ call.table_of_contents
    /\ call.nodes = <<TextNode(<<"\n">>), Wrapper(Div, <<Para, NavToc>>), Para>>
    /\ ret.kind = "return"
    /\ ret.value.toc = PyStr(<<"<", "n", "a", "v", " ">> \o ClassToc \o <<">", "t", "<", "/", "n", "a", "v", ">">>)

\* the first line of the text the call was made on is a JSON object
FirstLineIsObject ==
    LET t == strip_chars(call.first_line, JsonWhitespace)
    IN \/ t = <<"{", "}">>
       \/ \E o \in ExtractObjects : t = json_dumps(o)

\* C15: on every input whose first line is no valid JSON object
\* _extract_contents fails with the decode error and returns no triple; a
\* call on the body an earlier call returned always fails with the decode
\* error.
C15_NoObjectNoResult ==
    (call.fn = "_extract_contents" /\ ret # NoOutcome) =>
        /\ ~FirstLineIsObject => ret.kind = "JSONDecodeError"
        /\ call.run = 2 => ret.kind = "JSONDecodeError"

\* a body whose first line is a number was given to _extract_contents again
C15_BodyStartsWithNumber ==
    /\ call.fn = "_extract_contents"
    /\ call.run = 2
    /\ call.first_line = <<"7">>
    /\ ret # NoOutcome

(***************************************************************************)
(* The reader: MySTReader.read and MySTReader._create_html, statement by   *)
(* statement.  An exception leaves read at once, with no value returned.   *)
(***************************************************************************)
DefaultExtensions == <<"dollarmath">>

ReaderInit ==
    /\ call = [fn |-> "read"]
    /\ ret = NoOutcome
    /\ enable_extensions = DefaultExtensions
    /\ pc = "idle"
    /\ source_path = <<>>
    /\ file_content = <<>>
    /\ content = <<>>
    /\ myst_calls = <<>>
    /\ output = <<>>
    /\ toc = PyNone
    /\ myst_metadata = <<>>
    /\ metadata = <<>>
    /\ result = NoOutcome
    /\ docs_read = 0

Init ==
    /\ settings \in ReaderSettings
    /\ fs \in FewFileSystems
    /\ ReaderInit

\* read: pelican_open gives the text of the file, _create_html is entered
Read ==
    /\ pc = "idle"
    /\ docs_read < MaxDocs
    /\ \E path \in SourcePaths, text \in DocumentTexts :
           /\ source_path' = path
           /\ file_content' = text
           /\ content' = text
    /\ pc' = "create_html"
    /\ myst_calls' = <<>>
    /\ output' = <<>>
    /\ toc' = PyNone
    /\ myst_metadata' = <<>>
    /\ metadata' = <<>>
    /\ result' = NoOutcome
    /\ docs_read' = docs_read + 1
    /\ UNCHANGED <<call, ret, settings, enable_extensions, fs>>

\* the settings are read; a list of extensions extends the shared list
MergeExtensions ==
    /\ pc = "create_html"
    /\ enable_extensions' =
           IF settings.MYST_EXTENSIONS.t = "list"
           THEN enable_extensions \o settings.MYST_EXTENSIONS.items
           ELSE enable_extensions
    /\ pc' = "check"
    /\ UNCHANGED <<call, ret, settings, fs, source_path, file_content, content,
                   myst_calls, output, toc, myst_metadata, metadata, result, docs_read>>

\* a variant that goes on whatever the check says
CheckMetadataBlock_unheeded ==
    /\ pc = "check"
    /\ pc' = "find_bibs"
    /\ UNCHANGED <<call, ret, settings, enable_extensions, fs, source_path,
                   file_content, content, myst_calls, output, toc, myst_metadata,
                   metadata, result, docs_read>>

\* self._check_yaml_metadata_block(content)
CheckMetadataBlock ==
    /\ pc = "check"
    /\ LET checked == _check_yaml_metadata_block(content)
       IN IF checked.kind = "return"
          THEN pc' = "find_bibs" /\ result' = result
          ELSE pc' = "idle" /\ result' = checked
    /\ UNCHANGED <<call, ret, settings, enable_extensions, fs, source_path,
                   file_content, content, myst_calls, output, toc, myst_metadata,
                   metadata, docs_read>>

\* for bib_file in self._find_bibs(source_path): content += block
AppendBibliographies ==
    /\ pc = "find_bibs"
    /\ \E walk \in WalkOrders(fs, dirname(source_path)) :
           content' = append_bibliographies(content, _find_bibs(fs, walk, source_path))
    /\ pc' = "run_myst"
    /\ UNCHANGED <<call, ret, settings, enable_extensions, fs, source_path,
                   file_content, myst_calls, output, toc, myst_metadata, metadata,
                   result, docs_read>>

\* output = self._run_myst(content): whatever the converter answers
RunMyst ==
    /\ pc = "run_myst"
    /\ myst_calls' = Append(myst_calls, content)
    /\ \E converted \in ConverterOutputs : output' = converted
    /\ pc' = "extract"
    /\ UNCHANGED <<call, ret, settings, enable_extensions, fs, source_path,
                   file_content, content, toc, myst_metadata, metadata, result,
                   docs_read>>

\* output, toc, myst_metadata = self._extract_contents(output, True)
ExtractContents ==
    /\ pc = "extract"
    /\ LET extracted == _extract_contents(output, TRUE)
       IN IF extracted.kind = "return"
          THEN /\ output' = extracted.value.html_output
               /\ toc' = extracted.value.toc
               /\ myst_metadata' = extracted.value.myst_metadata
               /\ pc' = "links"
               /\ result' = result
          ELSE /\ pc' = "idle"
               /\ result' = extracted
               /\ UNCHANGED <<output, toc, myst_metadata>>
    /\ UNCHANGED <<call, ret, settings, enable_extensions, fs, source_path,
                   file_content, content, myst_calls, metadata, docs_read>>

\* the loop over ENCODED_LINKS_TO_RAW_LINKS_MAP
RewriteLinks ==
    /\ pc = "links"
    /\ output' = rewrite_links(output)
    /\ pc' = "metadata"
    /\ UNCHANGED <<call, ret, settings, enable_extensions, fs, source_path,
                   file_content, content, myst_calls, toc, myst_metadata, metadata,
                   result, docs_read>>

\* metadata = self._process_metadata(myst_metadata)
ProcessMetadata ==
    /\ pc = "metadata"
    /\ metadata' = _process_metadata(myst_metadata)
    /\ pc' = "toc"
    /\ UNCHANGED <<call, ret, settings, enable_extensions, fs, source_path,
                   file_content, content, myst_calls, output, toc, myst_metadata,
                   result, docs_read>>

KeyToc == <<"t", "o", "c">>
KeyReadingTime == <<"r", "e", "a", "d", "i", "n", "g", "_", "t", "i", "m", "e">>

\* if table_of_contents: metadata["toc"] = self.process_metadata("toc", toc),
\* table_of_contents being True
StoreToc ==
    /\ pc = "toc"
    /\ metadata' = SetItem(metadata, KeyToc, process_metadata(KeyToc, toc))
    /\ pc' = "reading_time"
    /\ UNCHANGED <<call, ret, settings, enable_extensions, fs, source_path,
                   file_content, content, myst_calls, output, toc, myst_metadata,
                   result, docs_read>>

\* a variant that estimates the reading time whatever the flag says
ReadingTime_unconditional ==
    /\ pc = "reading_time"
    /\ \E wordcount \in WordCounts :
           LET estimated == _calculate_reading_time(settings, wordcount)
           IN IF estimated.kind = "return"
              THEN /\ metadata' = SetItem(metadata, KeyReadingTime,
                           process_metadata(KeyReadingTime, PyStr(estimated.value)))
                   /\ pc' = "return"
                   /\ result' = result
              ELSE /\ pc' = "idle"
                   /\ result' = estimated
                   /\ metadata' = metadata
    /\ UNCHANGED <<call, ret, settings, enable_extensions, fs, source_path,
                   file_content, content, myst_calls, output, toc, myst_metadata,
                   docs_read>>

\* if self.settings.get("CALCULATE_READING_TIME", []): metadata["reading_time"] = ...
ReadingTime ==
    /\ pc = "reading_time"
    /\ IF settings.CALCULATE_READING_TIME
       THEN \E wordcount \in WordCounts :
                LET estimated == _calculate_reading_time(settings, wordcount)
                IN IF estimated.kind = "return"
                   THEN /\ metadata' = SetItem(metadata, KeyReadingTime,
                                process_metadata(KeyReadingTime, PyStr(estimated.value)))
                        /\ pc' = "return"
                        /\ result' = result
                   ELSE /\ pc' = "idle"
                        /\ result' = estimated
                        /\ metadata' = metadata
       ELSE pc' = "return" /\ UNCHANGED <<metadata, result>>
    /\ UNCHANGED <<call, ret, settings, enable_extensions, fs, source_path,
                   file_content, content, myst_calls, output, toc, myst_metadata,
                   docs_read>>

\* return output, metadata
Return ==
    /\ pc = "return"
    /\ result' = Returned([output |-> output, metadata |-> metadata])
    /\ pc' = "idle"
    /\ UNCHANGED <<call, ret, settings, enable_extensions, fs, source_path,
                   file_content, content, myst_calls, output, toc, myst_metadata,
                   metadata, docs_read>>

Next ==
    \/ Read
    \/ MergeExtensions
    \/ CheckMetadataBlock
    \/ AppendBibliographies
    \/ RunMyst
    \/ ExtractContents
    \/ RewriteLinks
    \/ ProcessMetadata
    \/ StoreToc
    \/ ReadingTime
    \/ Return

Spec == Init /\ [][Next]_vars

\* the reader with plain settings over every small file system
InitBibs ==
    /\ settings = plain_settings
    /\ fs \in FileSystems(MaxBibNames)
    /\ ReaderInit

SpecBibs == InitBibs /\ [][Next]_vars

\* a read has been made and has ended
ReadEnded == pc = "idle" /\ docs_read > 0

\* the three ways a document can lack its metadata block
DocEmpty == file_content = <<>>
DocNoHeader == file_content # <<>> /\ rstrip(splitlines(file_content)[1]) # Dashes
DocUnterminated ==
    /\ file_content # <<>>
    /\ rstrip(splitlines(file_content)[1]) = Dashes
    /\ LaterLines(file_content) \cap {Dashes, Dots} = {}

\* C2: when the metadata-block check fails on a document, read fails with the
\* error of the case (empty document, missing header, unterminated block),
\* the converter has not been called for the document, and no (html,
\* metadata) pair is returned.
C2_FailedCheckAbortsBeforeConversion ==
    (docs_read > 0 /\ _check_yaml_metadata_block(file_content).kind # "return") =>
        /\ pc \in {"create_html", "check", "idle"}
        /\ myst_calls = <<>>
        /\ result.kind # "return"
        /\ pc = "idle" =>
               /\ result.kind = "Exception"
               /\ DocEmpty => result.msg = MsgEmpty
               /\ DocNoHeader => result.msg = MsgNoHeader
               /\ DocUnterminated => result.msg = MsgNoEnd

\* a document with an opening '---' and no closing line has been refused
C2_UnterminatedDocumentRefused ==
    /\ ReadEnded
    /\ DocUnterminated
    /\ result = Raised("Exception", MsgNoEnd)
    /\ myst_calls = <<>>

\* the message the validators give for a default file, "" when it is valid
DefaultsError(d) ==
    IF _check_input_format(d).kind # "return" THEN _check_input_format(d).msg
    ELSE IF _check_output_format(d).kind # "return" THEN _check_output_format(d).msg
    ELSE ""

InvalidDefaultFiles ==
    {i \in 1..Len(settings.MYST_DEFAULT_FILES) :
         DefaultsError(settings.MYST_DEFAULT_FILES[i]) # ""}

\* C5: reading a valid document with a reader whose default files are
\* invalid fails with a ValueError carrying the validator's message; no
\* output is returned.  As in the tests, the settings are otherwise the
\* defaults (no reading time) and the converter answers with a JSON line and
\* a body.
C5_InvalidDefaultFilesRejected ==
    (/\ ReadEnded
     /\ _check_yaml_metadata_block(file_content).kind = "return"
     /\ InvalidDefaultFiles # {}
     /\ ~settings.CALCULATE_READING_TIME
     /\ result.kind \notin {"JSONDecodeError", "AttributeError"}) =>
        /\ result.kind = "ValueError"
        /\ \E i \in InvalidDefaultFiles :
               result.msg = DefaultsError(settings.MYST_DEFAULT_FILES[i])

\* the bibliography files of the document: the files of the tree under its
\* directory named after it with one of the four extensions
BibliographyFiles ==
    LET stem == splitext_root(basename(source_path))
    IN {join(d, stem \o <<".">> \o VALID_BIB_EXTENSIONS[e]) :
            d \in WalkedDirs(fs, dirname(source_path)),
            e \in DOMAIN VALID_BIB_EXTENSIONS}
       \cap UNION {{join(d, f) : f \in fs[d]} : d \in DOMAIN fs}

BlockHead == <<"\n", "\n", Backtick, Backtick, Backtick, "{", "b", "i", "b", "l", "i", "o", "g", "r", "a", "p", "h", "y", "}", " ">>
BlockTail == <<"\n", Backtick, Backtick, Backtick, "\n", "\n">>

\* the paths of the directive blocks that make up a text, one after the
\* other; <<"?">> when the text is not made of such blocks
RECURSIVE BlockPaths(_)
BlockPaths(text) ==
    IF text = <<>> THEN <<>>
    ELSE IF ~IsPrefix(BlockHead, text) THEN <<"?">>
    ELSE LET rest == SubSeq(text, Len(BlockHead) + 1, Len(text))
             stop == CHOOSE i \in 1..(Len(rest) + 1) :
                         /\ i = Len(rest) + 1 \/ rest[i] = "\n"
                         /\ \A j \in 1..(i - 1) : rest[j] # "\n"
             after == SubSeq(rest, stop, Len(rest))
         IN IF ~IsPrefix(BlockTail, after) THEN <<"?">>
            ELSE <<SubSeq(rest, 1, stop - 1)>>
                 \o BlockPaths(SubSeq(after, Len(BlockTail) + 1, Len(after)))

\* C8: the text given to the converter is the document's content, unchanged,
\* followed by one directive block per bibliography file of the document:
\* as many blocks as files, each with the path of a different file.
C8_ConverterInputHasOneBlockPerBibliography ==
    myst_calls # <<>> =>
        /\ Len(myst_calls) = 1
        /\ IsPrefix(file_content, myst_calls[1])
        /\ LET paths == BlockPaths(SubSeq(myst_calls[1], Len(file_content) + 1,
                                          Len(myst_calls[1])))
           IN /\ Len(paths) = Cardinality(BibliographyFiles)
              /\ {paths[i] : i \in 1..Len(paths)} = BibliographyFiles

\* a document with three bibliography files, in its directory and below it,
\* beside a file of another name, has been given to the converter
C8_ThreeBibliographiesAppended ==
    /\ myst_calls # <<>>
    /\ Cardinality(BibliographyFiles) = 3
    /\ \E d \in DOMAIN fs : \E f \in fs[d] : join(d, f) \notin BibliographyFiles
    /\ \E b \in BibliographyFiles : dirname(b) # dirname(source_path)

\* the metadata as _process_metadata left them, before the pipeline adds
\* its own entries
FrontMatter == _process_metadata(myst_metadata)

\* C11: the pipeline sets 'toc' in the metadata if and only if the extraction
\* gave a non-empty fragment; without a nav element of id TOC no 'toc' entry
\* is stored, and a 'toc' of the front matter stays as it was.
C11_TocStoredOnlyWhenExtracted ==
    pc \in {"reading_time", "return"} =>
        IF toc.t = "str" /\ toc.s # <<>>
        THEN KeyToc \in DOMAIN metadata /\ metadata[KeyToc] = toc
        ELSE /\ KeyToc \in DOMAIN metadata <=> KeyToc \in DOMAIN FrontMatter
             /\ KeyToc \in DOMAIN FrontMatter => metadata[KeyToc] = FrontMatter[KeyToc]

\* the converter's output had no nav element of id TOC and the toc step ran
C11_NoTocInOutput ==
    /\ pc = "reading_time"
    /\ toc = PyNone

\* the kinds of error the reading-time estimator can end with
ReadingTimeFailed ==
    \/ result = Raised("ValueError", MsgSpeed)
    \/ result.kind \in {"TypeError", "ZeroDivisionError"}

SpeedSettingIsNumber == float(settings.READING_SPEED).kind = "return"

EndsWithMinutes(s) ==
    \/ Len(s) > Len(Minute) /\ SubSeq(s, Len(s) - Len(Minute) + 1, Len(s)) = Minute
    \/ Len(s) > Len(Minutes) /\ SubSeq(s, Len(s) - Len(Minutes) + 1, Len(s)) = Minutes

\* C12: with CALCULATE_READING_TIME off the pipeline writes no 'reading_time'
\* entry and a non-numeric READING_SPEED makes no read fail; with it on,
\* every returned metadata holds 'reading_time', and a read whose
\* READING_SPEED is no number returns nothing.
C12_ReadingTimeOnlyOnRequest ==
    IF ~settings.CALCULATE_READING_TIME
    THEN /\ pc = "return" =>
                (KeyReadingTime \in DOMAIN metadata
                     <=> KeyReadingTime \in DOMAIN FrontMatter)
         /\ result.kind = "return" =>
                KeyReadingTime \notin DOMAIN result.value.metadata
         /\ ReadEnded => ~ReadingTimeFailed
    ELSE /\ result.kind = "return" =>
                /\ KeyReadingTime \in DOMAIN result.value.metadata
                /\ result.value.metadata[KeyReadingTime].t = "str"
                /\ EndsWithMinutes(result.value.metadata[KeyReadingTime].s)
         /\ (ReadEnded /\ ~SpeedSettingIsNumber) => result.kind # "return"

\* a read with the flag off and a READING_SPEED that is no number returned
C12_ReturnedDespiteBadSpeed ==
    /\ ReadEnded
    /\ ~settings.CALCULATE_READING_TIME
    /\ ~SpeedSettingIsNumber
    /\ result.kind = "return"

\* the list after the settings of one document have been merged into the
\* library's default
ExtensionsMergedOnce ==
    IF settings.MYST_EXTENSIONS.t = "list"
    THEN DefaultExtensions \o settings.MYST_EXTENSIONS.items
    ELSE DefaultExtensions

\* C13: the shared enabled-extensions list changes at most once: after the
\* first document it has the value it keeps after every later document, so
\* it does not grow with the number of documents and holds no extension
\* twice.
C13_ExtensionsMergedOnce ==
    (docs_read >= 1 /\ pc # "create_html") =>
        enable_extensions = ExtensionsMergedOnce

\* a second document has been read by a reader with an extension configured
C13_SecondDocumentRead ==
    /\ docs_read >= 2
    /\ pc # "create_html"
    /\ settings.MYST_EXTENSIONS.t = "list"
    /\ settings.MYST_EXTENSIONS.items # <<>>

====
